---- MODULE Spec2Model ----
(***************************************************************************)
(* Dr-Plant: the analysis lifecycle of src/App.tsx.                        *)
(*                                                                         *)
(* The React component App keeps five pieces of state (analyses,           *)
(* currentImage, currentAnalysis, isLoading, error), reads the live        *)
(* property i18n.language, and mirrors analyses into the localStorage      *)
(* slot 'plantAnalyses'.  Every event handler and every continuation after *)
(* an await runs to completion; the state updates it queues are committed  *)
(* together and the effects whose dependencies changed run right after the *)
(* commit.  One action of this module is one such handler or continuation  *)
(* together with the effects it triggers.                                  *)
(*                                                                         *)
(* Spec/spec.md name      here (name in src/App.tsx)                       *)
(*   history               analyses                                        *)
(*   pendingImage          currentImage                                    *)
(*   currentResult         currentAnalysis                                 *)
(*   isBusy                isLoading                                       *)
(*   lastError             error                                           *)
(*   durable slot          storage                                         *)
(*   displayLanguage       language  (i18n.language)                       *)
(*   runAnalysis           handleAnalyzeClick + its continuation           *)
(*   reconcileLanguage     translateAnalysisIfNeeded + its continuation    *)
(***************************************************************************)
EXTENDS Integers, Sequences, FiniteSets, TLC

VARIABLES
    analyses,         \* useState<AnalysisResultData[]>: sequence of records
    currentImage,     \* useState: Null or [base64, mimeType, dataUrl]
    currentAnalysis,  \* useState: Null or a record of analyses' element type
    isLoading,        \* useState<boolean>
    error,            \* useState<string | null>: Null or [message |-> s]
    language,         \* i18n.language, a live property of the i18n instance
    storage,          \* localStorage item 'plantAnalyses'
    inflight,         \* pending analyzePlantImage promises with their closures
    issued,           \* number of analyzePlantImage calls issued so far
    clock,            \* latest reading of new Date()
    nextRef,          \* next JavaScript object identity to hand out
    phase,            \* "boot" before the mount effects ran, then "ready";
                      \* "crashed" once a render threw
    writable          \* FALSE when localStorage.setItem throws (storage
                      \* disabled or full) for the whole session

vars == <<analyses, currentImage, currentAnalysis, isLoading, error, language,
          storage, inflight, issued, clock, nextRef, phase, writable>>

(***************************************************************************)
(* Bounds of the model.                                                    *)
(***************************************************************************)
MaxCalls == 2     \* analyzePlantImage calls issued in one behaviour
MaxClock == 2     \* largest clock reading

Null == [nil |-> TRUE]

Langs == {"en", "fr"}

(***************************************************************************)
(* Images.  An image arrives from the picker as {base64, mimeType}; both   *)
(* are strings, written here as sequences of string pieces so that the     *)
(* data URL template and the regular expression that parses it back are    *)
(* computed rather than assumed.  PngImage is what the picker delivers in  *)
(* this session; JpgImage and TxtImage were picked in an earlier session   *)
(* and survive in the stored history, TxtImage being a file that is not an *)
(* image.                                                                  *)
(***************************************************************************)
PngImage == [base64 |-> <<"AAA">>, mimeType |-> <<"image/", "png">>]
JpgImage == [base64 |-> <<"/9j/">>, mimeType |-> <<"image/", "jpeg">>]
TxtImage == [base64 |-> <<"QkI=">>, mimeType |-> <<"text/", "plain">>]

ImageData == {PngImage}

\* err.message of a rejected analyzePlantImage promise; "" is a falsy message
ErrMessages == {"", "DiagnosisError"}

\* `data:${imageData.mimeType};base64,${imageData.base64}`
DataUrl(imageData) ==
    <<"data:">> \o imageData.mimeType \o <<";base64,">> \o imageData.base64

NoMatch == [nil |-> TRUE]

\* imageUrl.match(/^data:(image\/.*?);base64,(.*)$/): group 1 is the shortest
\* run starting with "image/" that is followed by ";base64,", group 2 the rest.
Match(url) ==
    IF Len(url) >= 3 /\ url[1] = "data:" /\ url[2] = "image/"
       /\ \E k \in 3..Len(url) : url[k] = ";base64,"
    THEN LET k == CHOOSE i \in 3..Len(url) :
                     /\ url[i] = ";base64,"
                     /\ \A j \in 3..(i-1) : url[j] # ";base64,"
         IN  [mimeType |-> SubSeq(url, 2, k-1),
              base64   |-> SubSeq(url, k+1, Len(url))]
    ELSE NoMatch

\* The AnalysisFields analyzePlantImage resolves with: the diagnosis of the
\* submitted image, worded in the requested language.  The five fields
\* (disease, description, treatments, severityLevel, severityDescription)
\* always travel together and are kept as one value.
analyzePlantImage(base64, mimeType, lang) ==
    [of |-> [base64 |-> base64, mimeType |-> mimeType], lang |-> lang]

\* An AnalysisResultData object; ref is the identity of the JavaScript object
\* (what Object.is compares), the other fields are those of src/types.ts.
AnalysisResultData(ref, id, imageUrl, timestamp, lang, fields) ==
    [ref |-> ref, id |-> id, imageUrl |-> imageUrl, timestamp |-> timestamp,
     language |-> lang, diagnosis |-> fields]

\* JSON.stringify of one record: every field of src/types.ts, no identity.
Stringify(a) ==
    [id |-> a.id, imageUrl |-> a.imageUrl, timestamp |-> a.timestamp,
     language |-> a.language, diagnosis |-> a.diagnosis]

\* What JSON.parse returns for stored JSON text that is not an array (such as
\* {}): a value without length, map or iterator.  It is written as a
\* one-element sequence holding a marker so that it can sit in analyses.
NotArray == <<[notArray |-> TRUE]>>

IsArray(as) == as # NotArray

\* The stored text of such a value.
ObjectText == [kind |-> "object"]

\* JSON.stringify(analyses), the text handed to localStorage.setItem
Serialized(as) ==
    IF IsArray(as)
    THEN [kind |-> "json", items |-> [i \in 1..Len(as) |-> Stringify(as[i])]]
    ELSE ObjectText

SetItemDropped(slot, text) == slot

\* localStorage.setItem('plantAnalyses', text) inside try/catch (lines 91-95):
\* the slot holds text afterwards, or setItem threw and the slot is as before.
SetItem(slot, text) == IF writable THEN text ELSE slot

\* JSON.parse of a stored array: fresh objects, identities from ref0 on.
Parsed(items, ref0) ==
    [i \in 1..Len(items) |->
        AnalysisResultData(ref0 + i - 1, items[i].id, items[i].imageUrl,
                           items[i].timestamp, items[i].language,
                           items[i].diagnosis)]

NoItem    == [kind |-> "none"]        \* getItem returns null
Malformed == [kind |-> "malformed"]   \* JSON.parse throws

\* A record written by an earlier session (clock reading 0) for imageData.
StoredRecord(imageData) ==
    [id |-> 0, imageUrl |-> DataUrl(imageData), timestamp |-> 0,
     language |-> "en",
     diagnosis |-> analyzePlantImage(imageData.base64, imageData.mimeType, "en")]

\* What the slot may hold when the page is opened: nothing, text that is not
\* JSON, or a history written by an earlier session.
StoredAtStart ==
    {NoItem, Malformed,
     [kind |-> "json", items |-> <<>>],
     [kind |-> "json", items |-> <<StoredRecord(JpgImage)>>],
     [kind |-> "json", items |-> <<StoredRecord(TxtImage)>>]}

\* What else the slot may hold: JSON text that is not an array, and the
\* history an earlier session leaves when two of its analyses resolved at one
\* clock reading.
StoredOtherwise ==
    {ObjectText,
     [kind |-> "json",
      items |-> <<StoredRecord(JpgImage), StoredRecord(PngImage)>>]}

(***************************************************************************)
(* Helpers of the handlers.                                                *)
(***************************************************************************)
ParseMessage == "Could not parse image data from history for translation."
UnknownTranslation == "An unknown error occurred during translation."
UnknownAnalysisEmpty == ""

UnknownAnalysis == "An unknown error occurred during analysis."

\* Variant: the message is used as it comes.
MessageOrNoFallback(message, fallback) == message

\* err.message || fallback
MessageOr(message, fallback) == IF message = "" THEN fallback ELSE message

\* Variant: the check of line 107 is missing.
TranslateReturnsEarlyNoImageCheck(cur, img, loading, lang) ==
    \/ cur = Null
    \/ loading
    \/ cur.language = lang

\* The two early returns of translateAnalysisIfNeeded (lines 102-109), on the
\* state of the render the effect belongs to.
TranslateReturnsEarly(cur, img, loading, lang) ==
    \/ cur = Null
    \/ loading
    \/ cur.language = lang
    \/ img # Null

\* The early return of handleAnalyzeClick (line 176).
AnalyzeReturnsEarly(img, loading) == img = Null

\* Variant: the new record is appended.
PrependAtEnd(newAnalysis, prev) == prev \o <<newAnalysis>>

\* setAnalyses(prev => [newAnalysis, ...prev])
Prepend(newAnalysis, prev) == <<newAnalysis>> \o prev

\* Variant: the history is left as it was.
MapByIdForgotten(updated, prev) == prev

\* setAnalyses(prev => prev.map(a => a.id === updated.id ? updated : a))
MapById(updated, prev) ==
    [i \in 1..Len(prev) |-> IF prev[i].id = updated.id THEN updated ELSE prev[i]]

\* Variant: the effect spreads the record displayed when the promise settles,
\* not the one its closure captured.
UpdatedAnalysisOfDisplayed(ref, subject, translatedResult, lang) ==
    IF currentAnalysis = Null
    THEN AnalysisResultData(ref, subject.id, subject.imageUrl,
                            subject.timestamp, lang, translatedResult)
    ELSE AnalysisResultData(ref, currentAnalysis.id, currentAnalysis.imageUrl,
                            currentAnalysis.timestamp, lang, translatedResult)

\* { ...currentAnalysis, ...translatedResult, language: i18n.language }
\* built when the promise resolves: subject is the closure's currentAnalysis,
\* lang is i18n.language read at that moment.
UpdatedAnalysis(ref, subject, translatedResult, lang) ==
    AnalysisResultData(ref, subject.id, subject.imageUrl, subject.timestamp,
                       lang, translatedResult)

\* { id: new Date()..., imageUrl: currentImage.dataUrl, timestamp: new Date()...,
\*   language: i18n.language, ...result }: image is the closure's currentImage,
\* lang is i18n.language read when the promise resolves.
NewAnalysis(ref, now, image, lang, result) ==
    AnalysisResultData(ref, now, image.dataUrl, now, lang, result)

\* Variant: no finally block.
FinallyIsLoadingMissing(loading) == loading

\* finally { setIsLoading(false) } of both continuations (lines 161, 214)
FinallyIsLoading(loading) == FALSE

\* The dependency list [i18n.language, currentAnalysis] of the translation
\* effect: it runs again when either changed (Object.is) in the commit.
DepsChanged(cur, lang) == cur # currentAnalysis \/ lang # language

\* What the translation effect does after a commit whose state is
\* (cur, img, loading, lang): nothing at all ("none": dependencies unchanged),
\* an early return ("skip"), the synchronous throw of line 126 ("parseFail"),
\* or a call to analyzePlantImage ("start").
EffectOutcome(cur, img, loading, lang) ==
    IF ~DepsChanged(cur, lang) THEN "none"
    ELSE IF TranslateReturnsEarly(cur, img, loading, lang) THEN "skip"
    ELSE IF Match(cur.imageUrl) = NoMatch THEN "parseFail"
    ELSE "start"

\* The promise created by line 132 with the closure it resumes in.
TranslateCall(cid, cur, lang) ==
    LET m == Match(cur.imageUrl)
    IN  [cid |-> cid, kind |-> "translate", base64 |-> m.base64,
         mimeType |-> m.mimeType, lang |-> lang, image |-> Null,
         subject |-> cur]

\* The promise created by line 191 with the closure it resumes in.
AnalyzeCall(cid, img, lang) ==
    [cid |-> cid, kind |-> "analyze", base64 |-> img.base64,
     mimeType |-> img.mimeType, lang |-> lang, image |-> img,
     subject |-> Null]

\* One commit: the handler's queued updates (as, img, cur, loading, err, lang,
\* fl) become the state, the save effect runs if setAnalyses was called, and
\* the translation effect runs on the committed state.
Commit(as, img, cur, loading, err, lang, fl, n, saved) ==
    LET eff == EffectOutcome(cur, img, loading, lang)
    IN  /\ eff = "start" => n < MaxCalls
        /\ analyses' = as
        /\ currentImage' = img
        /\ currentAnalysis' = cur
        /\ language' = lang
        /\ storage' = IF saved THEN SetItem(storage, Serialized(as))
                                ELSE storage
        /\ isLoading' = CASE eff = "start" -> TRUE
                          [] eff = "parseFail" -> FinallyIsLoading(TRUE)
                          [] OTHER -> loading
        /\ error' = CASE eff = "start" -> Null
                      [] eff = "parseFail" -> [message |-> ParseMessage]
                      [] OTHER -> err
        /\ inflight' = IF eff = "start"
                       THEN fl \cup {TranslateCall(n + 1, cur, lang)}
                       ELSE fl
        /\ issued' = IF eff = "start" THEN n + 1 ELSE n

(***************************************************************************)
(* Initial state: the component is constructed, nothing has run yet.       *)
(***************************************************************************)
Init ==
    /\ analyses = <<>>
    /\ currentImage = Null
    /\ currentAnalysis = Null
    /\ isLoading = FALSE
    /\ error = Null
    /\ language \in Langs
    /\ storage \in StoredAtStart
    /\ inflight = {}
    /\ issued = 0
    /\ clock = 1
    /\ nextRef = 1
    /\ phase = "boot"
    /\ writable \in BOOLEAN

(***************************************************************************)
(* Mount: the load effect (lines 79-88) and the save effect (lines 90-96)  *)
(* of the first commit, and the save effect of the re-render that the      *)
(* load's setAnalyses causes.  The translation effect returns at once      *)
(* (currentAnalysis is null).                                              *)
(***************************************************************************)
Mount ==
    /\ phase = "boot"
    /\ phase' = "ready"
    /\ LET loads == storage.kind \in {"json", "object"}
           loaded == CASE storage.kind = "json" -> Parsed(storage.items, nextRef)
                       [] storage.kind = "object" -> NotArray
                       [] OTHER -> analyses
       IN  /\ analyses' = loaded
           /\ LET first == SetItem(storage, Serialized(analyses))
              IN  storage' = IF loads THEN SetItem(first, Serialized(loaded))
                                      ELSE first
           /\ nextRef' = nextRef + Len(loaded)
    /\ UNCHANGED <<currentImage, currentAnalysis, isLoading, error, language,
                   inflight, issued, clock, writable>>

\* handleImageSelect (lines 169-173)
handleImageSelect ==
    /\ phase = "ready"
    /\ \E imageData \in ImageData :
          Commit(analyses,
                 [base64 |-> imageData.base64, mimeType |-> imageData.mimeType,
                  dataUrl |-> DataUrl(imageData)],
                 Null, isLoading, Null, language, inflight, issued, FALSE)
    /\ UNCHANGED <<clock, nextRef, phase, writable>>

\* handleClear, had it emptied the history as well
handleClearAlsoHistory ==
    /\ phase = "ready"
    /\ Commit(<<>>, Null, Null, isLoading, Null, language,
              inflight, issued, TRUE)
    /\ UNCHANGED <<clock, nextRef, phase, writable>>

\* handleClear (lines 218-222)
handleClear ==
    /\ phase = "ready"
    /\ Commit(analyses, Null, Null, isLoading, Null, language,
              inflight, issued, FALSE)
    /\ UNCHANGED <<clock, nextRef, phase, writable>>

\* handleSelectFromHistory (lines 224-228), called by the sidebar with one of
\* the records of analyses.
handleSelectFromHistory ==
    /\ phase = "ready"
    /\ IsArray(analyses)
    /\ \E i \in 1..Len(analyses) :
          Commit(analyses, Null, analyses[i],
                 isLoading, Null, language, inflight, issued, FALSE)
    /\ UNCHANGED <<clock, nextRef, phase, writable>>

\* i18n.changeLanguage(l): the languageChanged event re-renders App.
changeLanguage ==
    /\ phase = "ready"
    /\ \E l \in Langs \ {language} :
          Commit(analyses, currentImage, currentAnalysis,
                 isLoading, error, l, inflight, issued, FALSE)
    /\ UNCHANGED <<clock, nextRef, phase, writable>>

\* handleAnalyzeClick up to its await (lines 175-191)
handleAnalyzeClick ==
    /\ phase = "ready"
    /\ IF AnalyzeReturnsEarly(currentImage, isLoading)
       THEN Commit(analyses, currentImage,
                   currentAnalysis, isLoading, error, language, inflight,
                   issued, FALSE)
       ELSE /\ issued < MaxCalls
            /\ Commit(analyses, currentImage, Null, TRUE,
                      Null, language,
                      inflight \cup {AnalyzeCall(issued + 1, currentImage, language)},
                      issued + 1, FALSE)
    /\ UNCHANGED <<clock, nextRef, phase, writable>>

\* handleAnalyzeClick after its await, promise resolved (lines 191-200, 214).
\* new Date() reads now: the clock has not moved since the previous reading,
\* or it has.  Lines 193 and 195 run back to back and are taken to read the
\* same instant.
AnalyzeResolved ==
    /\ phase = "ready"
    /\ \E c \in inflight, now \in clock..MaxClock :
          /\ c.kind = "analyze"
          /\ now <= clock + 1
          /\ IF IsArray(analyses)
             THEN LET result == analyzePlantImage(c.base64, c.mimeType, c.lang)
                      newAnalysis == NewAnalysis(nextRef, now, c.image, language,
                                                 result)
                  IN  /\ Commit(Prepend(newAnalysis, analyses), currentImage,
                                newAnalysis, FinallyIsLoading(isLoading), error,
                                language, inflight \ {c}, issued, TRUE)
                      /\ UNCHANGED phase
             ELSE \* [newAnalysis, ...prev] throws in the render: no error
                  \* boundary, React unmounts the application
                  /\ phase' = "crashed"
                  /\ inflight' = inflight \ {c}
                  /\ UNCHANGED <<analyses, currentImage, currentAnalysis,
                                 isLoading, error, language, storage, issued>>
          /\ clock' = now
    /\ nextRef' = nextRef + 1
    /\ UNCHANGED writable

\* handleAnalyzeClick after its await, promise rejected (lines 201-214)
AnalyzeRejected ==
    /\ phase = "ready"
    /\ \E c \in inflight, message \in ErrMessages :
          /\ c.kind = "analyze"
          /\ Commit(analyses, currentImage, currentAnalysis,
                    FinallyIsLoading(isLoading),
                    [message |-> MessageOr(message, UnknownAnalysis)],
                    language, inflight \ {c}, issued, FALSE)
    /\ UNCHANGED <<clock, nextRef, phase, writable>>

\* translateAnalysisIfNeeded after its await, promise resolved (lines 132-146, 161)
TranslateResolved ==
    /\ phase = "ready"
    /\ \E c \in inflight :
          /\ c.kind = "translate"
          /\ LET translatedResult == analyzePlantImage(c.base64, c.mimeType, c.lang)
                 updatedAnalysis == UpdatedAnalysis(nextRef, c.subject,
                                                    translatedResult, language)
             IN  Commit(MapById(updatedAnalysis, analyses),
                        currentImage, updatedAnalysis,
                        FinallyIsLoading(isLoading), error, language,
                        inflight \ {c}, issued, TRUE)
    /\ nextRef' = nextRef + 1
    /\ UNCHANGED <<clock, phase, writable>>

\* translateAnalysisIfNeeded after its await, promise rejected (lines 148-161)
TranslateRejected ==
    /\ phase = "ready"
    /\ \E c \in inflight, message \in ErrMessages :
          /\ c.kind = "translate"
          /\ Commit(analyses, currentImage, currentAnalysis,
                    FinallyIsLoading(isLoading),
                    [message |-> MessageOr(message, UnknownTranslation)],
                    language, inflight \ {c}, issued, FALSE)
    /\ UNCHANGED <<clock, nextRef, phase, writable>>

Next ==
    \/ Mount
    \/ handleImageSelect
    \/ handleClear
    \/ handleSelectFromHistory
    \/ changeLanguage
    \/ handleAnalyzeClick
    \/ AnalyzeResolved
    \/ AnalyzeRejected
    \/ TranslateResolved
    \/ TranslateRejected

Spec == Init /\ [][Next]_vars

\* The page opened on any content of the slot.
InitAnyStorage ==
    /\ analyses = <<>>
    /\ currentImage = Null
    /\ currentAnalysis = Null
    /\ isLoading = FALSE
    /\ error = Null
    /\ language \in Langs
    /\ storage \in StoredAtStart \cup StoredOtherwise
    /\ inflight = {}
    /\ issued = 0
    /\ clock = 1
    /\ nextRef = 1
    /\ phase = "boot"
    /\ writable \in BOOLEAN

AnyStorageSpec == InitAnyStorage /\ [][Next]_vars

\* Every issued analyzePlantImage promise settles.
FairSpec ==
    /\ Spec
    /\ WF_vars(AnalyzeResolved \/ AnalyzeRejected)
    /\ WF_vars(TranslateResolved \/ TranslateRejected)

(***************************************************************************)
(* Vocabulary of the properties.                                           *)
(***************************************************************************)
\* The records of analyses, as a set.
Stored == IF IsArray(analyses) THEN {analyses[i] : i \in 1..Len(analyses)} ELSE {}

\* The history a load of the slot yields (lines 81-87): the stored array, and
\* nothing when the item is missing or is not JSON.
LoadedItems(slot) == IF slot.kind = "json" THEN slot.items ELSE <<>>

\* The number of records a step puts in front of the old ones.
Inserted == Len(analyses') - Len(analyses)

\* The positions of the old history whose record has other content after the
\* step.
Rewritten ==
    {i \in 1..Len(analyses) :
        Stringify(analyses'[i + Inserted]) # Stringify(analyses[i])}

\* A step between two states that show a history.
HistoryStep == phase = "ready" /\ phase' = "ready" /\ IsArray(analyses)

\* A record is displayed in another language than the interface's, with no
\* image pending, no error shown and no call in flight.
IdleMismatch ==
    /\ phase = "ready"
    /\ inflight = {}
    /\ currentImage = Null
    /\ error = Null
    /\ currentAnalysis # Null
    /\ currentAnalysis.language # language

\* Every record the state holds: those of analyses and the displayed one.
Records == Stored \cup (IF currentAnalysis = Null THEN {} ELSE {currentAnalysis})

\* A promise settles: one of the four continuations runs.
Settles ==
    AnalyzeResolved \/ AnalyzeRejected \/ TranslateResolved \/ TranslateRejected

\* A step in which the translation effect throws at line 126.  Only a history
\* selection or a language change can end this way; both leave isLoading to
\* the effect.
ParseFails ==
    /\ handleSelectFromHistory \/ changeLanguage
    /\ EffectOutcome(currentAnalysis', currentImage', isLoading, language')
          = "parseFail"

(***************************************************************************)
(* C1.  At most one analyzePlantImage call is in flight in every reachable *)
(* state: neither handleAnalyzeClick nor the translation effect starts a   *)
(* call while another has not settled.                                     *)
(***************************************************************************)
C1_AtMostOneCallInFlight == Cardinality(inflight) <= 1

(***************************************************************************)
(* C2.  handleAnalyzeClick invoked while isLoading is true is a no-op: no  *)
(* call is issued and analyses, currentAnalysis, error and isLoading keep  *)
(* their values.                                                           *)
(***************************************************************************)
C2_AnalyzeWhileBusyIsNoOp ==
    [][(handleAnalyzeClick /\ isLoading)
          => UNCHANGED <<analyses, currentAnalysis, error, isLoading,
                         inflight, issued>>]_vars

(***************************************************************************)
(* C3.  When an analysis call resolves, the record built from it becomes   *)
(* currentAnalysis and is analyses[1] (the front), and the records stored  *)
(* before follow it in their previous order, whatever was done while the   *)
(* call was in flight.                                                     *)
(***************************************************************************)
C3_NewRecordIsFrontAndCurrent ==
    [][AnalyzeResolved
          => /\ Len(analyses') = Len(analyses) + 1
             /\ currentAnalysis' = analyses'[1]
             /\ currentAnalysis'.ref = nextRef
             /\ \A i \in 1..Len(analyses) : analyses'[i + 1] = analyses[i]]_vars

\* An analysis resolved on top of an older record, after the pending image
\* had been cleared and the language changed while the call was in flight.
C3_Witness ==
    /\ Len(analyses) >= 2
    /\ currentAnalysis = analyses[1]
    /\ currentAnalysis.ref = nextRef - 1
    /\ currentAnalysis.id = clock
    /\ currentAnalysis.imageUrl = DataUrl(PngImage)
    /\ currentAnalysis.diagnosis.lang # language
    /\ currentImage = Null

(***************************************************************************)
(* C4.  analyses holds at most one record per id in every reachable state. *)
(***************************************************************************)
C4_IdsAreUnique ==
    \A i, j \in 1..Len(analyses) :
        i # j => analyses[i].id # analyses[j].id

(***************************************************************************)
(* C5.  isLoading is always released: the continuation of every settled    *)
(* call, resolved or rejected, leaves isLoading false; the synchronous     *)
(* parse failure of the translation effect leaves it false; no state with  *)
(* zero calls in flight has isLoading true; and, every issued call         *)
(* settling eventually, isLoading true leads to isLoading false.           *)
(***************************************************************************)
C5_LoadingIsReleased ==
    /\ [](inflight = {} => ~isLoading)
    /\ [][(Settles \/ ParseFails) => ~isLoading']_vars
    /\ isLoading ~> ~isLoading

\* A translation that failed to parse left the flag down with nothing in
\* flight, after calls had been issued and had settled.
C5_Witness ==
    /\ error = [message |-> ParseMessage]
    /\ ~isLoading
    /\ inflight = {}
    /\ issued >= 1

(***************************************************************************)
(* C6.  A freshly picked image is never overwritten by a translation: as   *)
(* long as currentImage stays non-null and no analysis resolves and no     *)
(* history record is selected, currentAnalysis stays null and no           *)
(* translation call is started, even if a translation call was in flight   *)
(* when the image was picked.                                              *)
(***************************************************************************)
C6_PendingImageKeepsResultNull ==
    [][(/\ currentImage # Null
        /\ currentAnalysis = Null
        /\ currentImage' # Null
        /\ ~AnalyzeResolved
        /\ ~handleSelectFromHistory)
          => /\ currentAnalysis' = Null
             /\ \A c \in inflight' \ inflight : c.kind # "translate"]_vars

(***************************************************************************)
(* C7.  The translation effect does nothing when, as it is triggered,      *)
(* currentAnalysis is null, isLoading is true, currentAnalysis.language    *)
(* equals i18n.language, or currentImage is non-null: no call is issued    *)
(* and analyses, currentAnalysis, isLoading and error are as the           *)
(* triggering handler left them.                                           *)
(***************************************************************************)
C7_TranslateSkipsAreNoOps ==
    /\ [][(/\ changeLanguage
           /\ \/ currentAnalysis = Null
              \/ isLoading
              \/ currentAnalysis.language = language'
              \/ currentImage # Null)
             => UNCHANGED <<analyses, currentAnalysis, isLoading, error,
                            inflight, issued>>]_vars
    /\ [][(/\ handleSelectFromHistory
           /\ isLoading \/ currentAnalysis'.language = language)
             => /\ UNCHANGED <<analyses, isLoading, inflight, issued>>
                /\ error' = Null]_vars
    /\ [][(handleImageSelect \/ handleClear)
             => UNCHANGED <<analyses, isLoading, inflight, issued>>]_vars
    /\ [][(AnalyzeResolved \/ TranslateResolved)
             => inflight' \subseteq inflight /\ issued' = issued]_vars

\* The displayed record is in another language than the interface, an
\* unanalysed image is pending, and nothing is in flight nor was attempted.
C7_Witness ==
    /\ currentAnalysis # Null
    /\ currentImage # Null
    /\ currentAnalysis.language # language
    /\ inflight = {}
    /\ ~isLoading
    /\ error = Null

(***************************************************************************)
(* C8.  The displayed record never diverges from the history: whenever     *)
(* currentAnalysis is non-null, analyses holds a record with the same id   *)
(* and the same value in every field.                                      *)
(***************************************************************************)
C8_CurrentIsInHistory ==
    currentAnalysis # Null
        => \E i \in 1..Len(analyses) :
              /\ analyses[i].id = currentAnalysis.id
              /\ Stringify(analyses[i]) = Stringify(currentAnalysis)

\* The record of the earlier session was translated: a new object with its
\* id is displayed, worded in French.
C8_Witness ==
    /\ currentAnalysis # Null
    /\ currentAnalysis.id = 0
    /\ currentAnalysis.imageUrl = DataUrl(JpgImage)
    /\ currentAnalysis.ref > 1
    /\ currentAnalysis.diagnosis.lang = "fr"
    /\ Len(analyses) >= 2

(***************************************************************************)
(* C9.  The language label of every record, in analyses and displayed, is  *)
(* the language that was passed to the call which produced its diagnosis   *)
(* fields.                                                                 *)
(***************************************************************************)
C9_LanguageLabelIsFaithful ==
    \A a \in Records : a.language = a.diagnosis.lang

C11_FailedAnalysisLeavesResultNull ==
    [][AnalyzeRejected
          => /\ error' # Null
             /\ error'.message # ""
             /\ currentAnalysis' = Null
             /\ analyses' = analyses
             /\ ~isLoading']_vars

(***************************************************************************)
(* C11, amended.  handleAnalyzeClick sets currentAnalysis to null when it  *)
(* issues its call.  When the call fails, error is set to the error's      *)
(* message, or to the fallback message when that is empty; the failure     *)
(* leaves currentAnalysis as it is (null, unless a record was selected or  *)
(* produced during the flight), analyses is unchanged and isLoading is     *)
(* false.                                                                  *)
(***************************************************************************)
C11_FailedAnalysisKeepsResult ==
    /\ [][(handleAnalyzeClick /\ inflight' # inflight)
             => currentAnalysis' = Null /\ error' = Null]_vars
    /\ [][AnalyzeRejected
             => /\ error' # Null
                /\ error'.message \in {"DiagnosisError", UnknownAnalysis}
                /\ error'.message # ""
                /\ UNCHANGED <<analyses, currentAnalysis, storage>>
                /\ ~isLoading']_vars

\* An analysis was rejected with an empty message after a record had been
\* selected during its flight: the record stays displayed under the fallback
\* message.
C11_Witness ==
    /\ error = [message |-> UnknownAnalysis]
    /\ currentAnalysis # Null
    /\ currentAnalysis.id = 0
    /\ currentImage = Null
    /\ inflight = {}
    /\ ~isLoading
    /\ issued = 1

(***************************************************************************)
(* C12.  The pending image exists only between selection and submission   *)
(* or clearing: handleAnalyzeClick, when it submits currentImage, leaves   *)
(* currentImage null, so no completed analysis finds the image it was      *)
(* issued for still pending.                                               *)
(***************************************************************************)
C12_SubmissionClearsPendingImage ==
    /\ [][(handleAnalyzeClick /\ currentImage # Null) => currentImage' = Null]_vars
    /\ [][(AnalyzeResolved /\ phase' = "ready")
             => (currentImage' = Null
                 \/ currentImage'.dataUrl # currentAnalysis'.imageUrl)]_vars

(***************************************************************************)
(* C15.  handleClear never mutates analyses: in any state, also while a    *)
(* call is in flight, it sets currentImage, currentAnalysis and error to   *)
(* null, issues no call, and leaves analyses, the stored copy, isLoading   *)
(* and the pending calls unchanged.                                        *)
(***************************************************************************)
C15_ClearKeepsHistory ==
    [][handleClear
          => /\ currentImage' = Null
             /\ currentAnalysis' = Null
             /\ error' = Null
             /\ UNCHANGED <<analyses, storage, isLoading, inflight, issued,
                            language>>]_vars

\* handleClear ran while an analysis was in flight: the image that call was
\* issued for is no longer pending, nothing is displayed, the history still
\* holds its record and the call is still pending.
C15_Witness ==
    /\ currentImage = Null
    /\ currentAnalysis = Null
    /\ error = Null
    /\ isLoading
    /\ \E c \in inflight : c.kind = "analyze"
    /\ Len(analyses) >= 1

(***************************************************************************)
(* C16.  isLoading covers the whole call: in every reachable state in      *)
(* which an analyzePlantImage call is in flight isLoading is true, and a   *)
(* step that clears isLoading is the completion of the only pending call.  *)
(***************************************************************************)
C16_LoadingCoversTheCall ==
    /\ [](inflight # {} => isLoading)
    /\ [][(isLoading /\ ~isLoading') => (Settles /\ inflight' = {})]_vars

C14_StorageFailuresAreAbsorbed ==
    /\ [][(Mount /\ storage.kind # "json")
             => analyses' = <<>> /\ error' = Null]_vars
    /\ [](phase # "crashed")

(***************************************************************************)
(* C17.  Positions in analyses are stable: the sequence of ids changes     *)
(* only by one new id put in front by a resolved analysis; a resolved      *)
(* translation rewrites at most one record, the one with the id of the     *)
(* record it translated, where it stands; no other step changes a record,  *)
(* and the length never decreases.                                         *)
(***************************************************************************)
C17_HistoryPositionsAreStable ==
    [][HistoryStep
          => /\ Inserted \in {0, 1}
             /\ Inserted = 1 => AnalyzeResolved
             /\ \A i \in 1..Len(analyses) :
                   analyses'[i + Inserted].id = analyses[i].id
             /\ Rewritten # {} => TranslateResolved
             /\ Cardinality(Rewritten) <= 1
             /\ \A i \in Rewritten : analyses[i].id = currentAnalysis'.id]_vars

C19_RecordsKeepTheirImage ==
    /\ [](\A a \in Records : DataUrl(a.diagnosis.of) = a.imageUrl)
    /\ [][HistoryStep
             => \A i \in 1..Len(analyses) :
                   /\ analyses'[i + Inserted].id = analyses[i].id
                   /\ analyses'[i + Inserted].imageUrl = analyses[i].imageUrl
                   /\ analyses'[i + Inserted].timestamp = analyses[i].timestamp]_vars
    /\ [][(HistoryStep /\ TranslateResolved)
             => \A i \in Rewritten : analyses[i].id = currentAnalysis'.id]_vars

(***************************************************************************)
(* C20.  A language mismatch is reconciled: when the last pending call     *)
(* resolves while a record selected from the history is displayed in       *)
(* another language than the interface's, that record stays displayed and  *)
(* is then in the interface language; and no step enters an idle state     *)
(* with a mismatch unless a failure was being shown.                       *)
(***************************************************************************)
C20_MismatchIsReconciled ==
    /\ [][(/\ AnalyzeResolved \/ TranslateResolved
           /\ currentAnalysis # Null
           /\ currentImage = Null
           /\ currentAnalysis.language # language
           /\ inflight' = {})
             => /\ currentAnalysis'.id = currentAnalysis.id
                /\ currentAnalysis'.language = language']_vars
    /\ [][(IdleMismatch' /\ ~IdleMismatch) => error # Null]_vars

====
